---- MODULE Spec2Model ----
(***************************************************************************)
(* Model of the alya keyboard firmware (src/src/main.rs, src/src/layout.rs) *)
(* built on the keyberon crate.  main.rs supplies the tick handler, the     *)
(* USB handlers and the construction parameters; layout.rs supplies the     *)
(* layer table and the hold-tap bindings.  The operators that stand for     *)
(* keyberon's Debouncer, Layout and KbHidReport model the crate the   *)
(* firmware links against (the release with HoldTapAction.tap_hold_interval *)
(* and const-generic Layout<C, R, L, T>); the crate's source is not part of *)
(* src/.                                                              *)
(***************************************************************************)
EXTENDS Integers, Sequences, FiniteSets, TLC

(* ------------------------------------------------------------------ *)
(* Constants of the program                                           *)
(* ------------------------------------------------------------------ *)

\* main.rs:174  Debouncer::new(.., .., 5)
NbBounce == 5

\* layout.rs:9  const TIMEOUT: u16 = 200
TIMEOUT == 200

\* layout.rs:13  tap_hold_interval: 200 (the same in the four hold-tap keys)
TapHoldInterval == 200

\* main.rs:72  Debouncer<[[bool; 7]; 10]>: 10 rows of 7 columns
NRows == 10
NCols == 7

Coords == (0 .. NRows - 1) \X (0 .. NCols - 1)

(* ------------------------------------------------------------------ *)
(* Actions of the layer table (keyberon::action::Action<()>)          *)
(* ------------------------------------------------------------------ *)

Act(tag, val, codes, h, tp) ==
    [t |-> tag, v |-> val, kcs |-> codes, hold |-> h, tap |-> tp,
     config |-> IF tag = "HoldTap" THEN "Default" ELSE ""]

NoOp == Act("NoOp", 0, <<>>, "", "")
Trans == Act("Trans", 0, <<>>, "", "")
Custom == Act("Custom", 0, <<>>, "", "")

\* keyberon::action::k
k(kc) == Act("KeyCode", 0, <<kc>>, "", "")

\* keyberon::action::m
m(codes) == Act("MultipleKeyCodes", 0, codes, "", "")

\* the layout! macro's (n): Action::Layer(n)
ly(val) == Act("Layer", val, <<>>, "", "")

\* layout.rs:6-7
DLAYER == Act("DefaultLayer", 0, <<>>, "", "")
QWERTZLAYER == Act("DefaultLayer", 4, <<>>, "", "")

\* HoldTap(&HoldTapAction { timeout: TIMEOUT, tap_hold_interval: 200,
\*                          config: HoldTapConfig::Default, hold: k(h), tap: k(tp) })
HoldTap(h, tp) == Act("HoldTap", 0, <<>>, h, tp)

\* SHIFT_SP with hold and tap exchanged
SHIFT_SPSwapped == HoldTap("Space", "LShift")

\* SHIFT_SP with config: HoldTapConfig::HoldOnOtherKeyPress
SHIFT_SPHoldOnOther == [HoldTap("LShift", "Space") EXCEPT !.config = "HoldOnOtherKeyPress"]

\* layout.rs:11-41
SHIFT_SP == HoldTap("LShift", "Space")
CTRL_TAB == HoldTap("LCtrl", "Tab")
ALT_ENT == HoldTap("LAlt", "Enter")
PPN == HoldTap("MediaNextSong", "MediaPlayPause")

\* layout.rs:43-52  macros s! and a!
s(kc) == m(<<"LShift", kc>>)
a(kc) == m(<<"RAlt", kc>>)

TRow == <<Trans, Trans, Trans, Trans, Trans, Trans, Trans>>

\* layout.rs:56-70
Layer0 == <<
  <<NoOp, NoOp, k("Kb1"), k("Kb2"), k("Kb3"), k("Kb4"), k("Kb5")>>,
  <<NoOp, k("J"), k("Y"), k("Z"), k("U"), k("A"), k("Q")>>,
  <<ly(1), NoOp, k("C"), k("S"), k("I"), k("E"), k("O")>>,
  <<k("LGui"), k("V"), k("X"), k("LBracket"), k("Quote"), k("SColon"), NoOp>>,
  <<Trans, Trans, Trans, Trans, ly(2), k("LShift"), CTRL_TAB>>,
  <<k("Kb6"), k("Kb7"), k("Kb8"), k("Kb9"), k("Kb0"), NoOp, NoOp>>,
  <<k("P"), k("B"), k("M"), k("L"), k("F"), k("Minus"), NoOp>>,
  <<k("D"), k("T"), k("N"), k("R"), k("H"), NoOp, ly(1)>>,
  <<NoOp, k("W"), k("G"), k("Comma"), k("Dot"), k("K"), k("LGui")>>,
  <<ALT_ENT, SHIFT_SP, ly(2), Trans, Trans, Trans, Trans>> >>

\* layout.rs:70-84
Layer1 == <<
  TRow,
  <<Trans, Trans, a("E"), s("Slash"), a("Kb8"), a("Kb9"), k("Grave")>>,
  <<Trans, NoOp, a("Minus"), s("Kb7"), a("Kb7"), a("Kb0"), s("RBracket")>>,
  <<Trans, k("NonUsHash"), s("Kb4"), a("NonUsBslash"), a("RBracket"), s("Equal"), Trans>>,
  <<Trans, Trans, Trans, Trans, ly(3), Trans, Trans>>,
  TRow,
  <<s("Kb1"), k("NonUsBslash"), s("NonUsBslash"), s("Kb0"), s("Kb6"), a("Q"), Trans>>,
  <<s("Minus"), s("Kb8"), s("Kb9"), k("Slash"), s("Dot"), NoOp, Trans>>,
  <<NoOp, k("RBracket"), s("Kb5"), s("Kb2"), s("NonUsHash"), s("Comma"), Trans>>,
  <<Trans, Trans, ly(3), Trans, Trans, Trans, Trans>> >>

\* layout.rs:84-98
Layer2 == <<
  TRow,
  <<Trans, Trans, k("PgUp"), k("BSpace"), k("Up"), k("Delete"), k("PgDown")>>,
  <<ly(3), NoOp, k("Home"), k("Left"), k("Down"), k("Right"), k("End")>>,
  <<Trans, Trans, k("Escape"), k("Tab"), NoOp, k("Enter"), NoOp>>,
  TRow,
  TRow,
  <<NoOp, k("Kb7"), k("Kb8"), k("Kb9"), k("RBracket"), k("Slash"), Trans>>,
  <<NoOp, k("Kb4"), k("Kb5"), k("Kb6"), k("Dot"), NoOp, s("RBracket")>>,
  <<NoOp, k("Kb0"), k("Kb1"), k("Kb2"), k("Kb3"), k("Comma"), s("Kb7")>>,
  TRow >>

\* layout.rs:98-112
Layer3 == <<
  TRow,
  <<Custom, NoOp, NoOp, NoOp, NoOp, k("VolUp"), NoOp>>,
  <<Trans, NoOp, NoOp, NoOp, NoOp, PPN, NoOp>>,
  <<Trans, NoOp, NoOp, NoOp, NoOp, k("VolDown"), NoOp>>,
  TRow,
  TRow,
  <<k("F12"), k("F7"), k("F8"), k("F9"), NoOp, NoOp, Custom>>,
  <<k("F11"), k("F4"), k("F5"), k("F6"), NoOp, NoOp, Trans>>,
  <<NoOp, k("F10"), k("F1"), k("F2"), k("F3"), NoOp, Trans>>,
  <<Trans, Trans, QWERTZLAYER, Trans, Trans, Trans, Trans>> >>

\* layout.rs:112-126
Layer4 == <<
  TRow,
  <<k("Tab"), NoOp, k("Q"), k("W"), k("E"), k("R"), k("T")>>,
  <<k("LCtrl"), NoOp, k("A"), k("S"), k("D"), k("F"), k("G")>>,
  <<k("LShift"), k("Z"), k("X"), k("C"), k("V"), k("B"), NoOp>>,
  <<NoOp, NoOp, NoOp, NoOp, k("LGui"), k("LCtrl"), k("LAlt")>>,
  TRow,
  <<k("Y"), k("U"), k("I"), k("O"), k("P"), k("BSpace"), Trans>>,
  <<k("H"), k("J"), k("K"), k("L"), k("SColon"), NoOp, k("Quote")>>,
  <<NoOp, k("N"), k("M"), k("Comma"), k("Dot"), k("Slash"), k("Escape")>>,
  <<k("Enter"), k("Space"), DLAYER, NoOp, NoOp, NoOp, NoOp>> >>

\* the layers with (2,0) transparent on layer 2, where layout.rs has (3)
LAYERSNo3OnLayer2 ==
    [<<Layer0, Layer1, Layer2, Layer3, Layer4>> EXCEPT ![3][3][1] = Trans]

\* the layers with Custom(()) bound to (1,0) on layer 1 as well
LAYERSCustomOnLayer1 ==
    [<<Layer0, Layer1, Layer2, Layer3, Layer4>> EXCEPT ![2][2][1] = Custom]

\* layout.rs:55  pub static LAYERS: Layers<7, 10, 5, ()>
LAYERS == <<Layer0, Layer1, Layer2, Layer3, Layer4>>

\* LAYERS[layer][i][j], zero-based as in the source; None outside the table
Binding(layer, coord) ==
    IF layer \in 0 .. Len(LAYERS) - 1 /\ coord \in Coords
    THEN LAYERS[layer + 1][coord[1] + 1][coord[2] + 1]
    ELSE NoOp

(* ------------------------------------------------------------------ *)
(* keyberon::debounce::Debouncer<[[bool; 7]; 10]>                     *)
(* A matrix is the set of its pressed coordinates.                    *)
(* ------------------------------------------------------------------ *)

\* Debouncer::new with a threshold one too low
DebouncerNewLow == [cur |-> {}, new |-> {}, since |-> 0, nb_bounce |-> NbBounce - 1]

\* a debouncer whose accepted state starts with (1,2) pressed
DebouncerNewPressed == [cur |-> {<<1, 2>>}, new |-> {}, since |-> 0, nb_bounce |-> NbBounce]

\* main.rs:174  Debouncer::new([[false; 7]; 10], [[false; 7]; 10], 5)
DebouncerNew == [cur |-> {}, new |-> {}, since |-> 0, nb_bounce |-> NbBounce]

\* Debouncer::update that validates the new state without swapping cur and new
updateNoSwap(d, snap) ==
    IF d.cur = snap
    THEN [d |-> [d EXCEPT !.since = 0], changed |-> FALSE]
    ELSE LET cnt == IF d.new # snap THEN 1 ELSE d.since + 1
         IN  IF cnt > d.nb_bounce
             THEN [d |-> [d EXCEPT !.new = snap, !.since = 0], changed |-> TRUE]
             ELSE [d |-> [d EXCEPT !.new = snap, !.since = cnt], changed |-> FALSE]

\* Debouncer::update: one counter for the whole matrix; the new state is
\* validated when it has been seen more than nb_bounce times in a row
update(d, snap) ==
    IF d.cur = snap
    THEN [d |-> [d EXCEPT !.since = 0], changed |-> FALSE]
    ELSE LET cnt == IF d.new # snap THEN 1 ELSE d.since + 1
         IN  IF cnt > d.nb_bounce
             THEN [d |-> [d EXCEPT !.cur = snap, !.new = d.cur, !.since = 0],
                   changed |-> TRUE]
             ELSE [d |-> [d EXCEPT !.new = snap, !.since = cnt], changed |-> FALSE]

\* position of a coordinate in the row-major scan of the matrix
ScanIndex(c) == c[1] * NCols + c[2]

RECURSIVE ScanOrder(_)
ScanOrder(cs) ==
    IF cs = {} THEN <<>>
    ELSE LET c == CHOOSE x \in cs : \A y \in cs : ScanIndex(x) <= ScanIndex(y)
         IN  <<c>> \o ScanOrder(cs \ {c})

Press(c) == [t |-> "Press", coord |-> c]
Release(c) == [t |-> "Release", coord |-> c]

\* Debouncer::events: after a validated update, zip the old state (now in new)
\* with the current one, row by row: (false, true) => Press, (true, false) => Release
events(d, snap) ==
    LET u == update(d, snap)
        diff == (u.d.cur \ u.d.new) \cup (u.d.new \ u.d.cur)
        order == ScanOrder(diff)
    IN  [d |-> u.d,
         evs |-> IF u.changed
                 THEN [i \in 1 .. Len(order) |->
                         IF order[i] \in u.d.cur THEN Press(order[i]) ELSE Release(order[i])]
                 ELSE <<>>]

(* ------------------------------------------------------------------ *)
(* keyberon::layout::Layout<7, 10, 5, ()>                             *)
(* ------------------------------------------------------------------ *)

NormalKey(kc, c) == [t |-> "NormalKey", kc |-> kc, v |-> 0, coord |-> c]
LayerModifier(val, c) == [t |-> "LayerModifier", kc |-> "", v |-> val, coord |-> c]
CustomState(c) == [t |-> "Custom", kc |-> "", v |-> 0, coord |-> c]

NoWaiting ==
    [active |-> FALSE, coord |-> <<0, 0>>, timeout |-> 0, delay |-> 0, hold |-> NoOp, tap |-> NoOp,
     config |-> "Default"]

\* main.rs:168  Layout::new(&layout::LAYERS)
LayoutNew ==
    [states |-> <<>>, waiting |-> NoWaiting, stacked |-> <<>>, default_layer |-> 0,
     tracker |-> [coord |-> <<0, 0>>, timeout |-> 0]]

\* Layout::current_layer: the layer of the last LayerModifier state, else the default
current_layer(lay) ==
    LET idx == {i \in 1 .. Len(lay.states) : lay.states[i].t = "LayerModifier"}
    IN  IF idx = {} THEN lay.default_layer
        ELSE lay.states[CHOOSE i \in idx : \A j \in idx : j <= i].v

\* Layout::press_as_action with Trans falling to the layer just below
RECURSIVE press_as_actionBelow(_, _, _)
press_as_actionBelow(lay, coord, layer) ==
    LET act == Binding(layer, coord)
    IN  IF act.t = "Trans"
        THEN IF layer > 0 THEN press_as_actionBelow(lay, coord, layer - 1) ELSE NoOp
        ELSE act

\* Layout::press_as_action with Trans taken as it stands: no action
press_as_actionOpaque(lay, coord, layer) ==
    LET act == Binding(layer, coord)
    IN  IF act.t = "Trans" THEN NoOp ELSE act

\* Layout::press_as_action: Trans takes the action of the default layer, and is
\* NoOp on the default layer itself
RECURSIVE press_as_action(_, _, _)
press_as_action(lay, coord, layer) ==
    LET act == Binding(layer, coord)
    IN  IF act.t = "Trans"
        THEN IF layer # lay.default_layer
             THEN press_as_action(lay, coord, lay.default_layer)
             ELSE NoOp
        ELSE act

\* heapless Vec<State, 64>::push: dropped when the vector is full
Push(states, st) == IF Len(states) < 64 THEN Append(states, st) ELSE states

RECURSIVE PushAll(_, _, _)
PushAll(states, codes, coord) ==
    IF codes = <<>> THEN states
    ELSE PushAll(Push(states, NormalKey(Head(codes), coord)), Tail(codes), coord)

\* Layout::do_action; the result is the layout and the CustomEvent returned
RECURSIVE do_action(_, _, _, _)
do_action(lay, act, coord, delay) ==
    LET track == [lay EXCEPT !.tracker.coord = coord]
    IN  CASE act.t \in {"NoOp", "Trans"} -> [l |-> lay, custom |-> "NoEvent"]
          [] act.t = "HoldTap" ->
               IF TapHoldInterval = 0 \/ coord # lay.tracker.coord \/ lay.tracker.timeout = 0
               THEN [l |-> [lay EXCEPT
                              !.waiting = [active |-> TRUE, coord |-> coord, timeout |-> TIMEOUT,
                                           delay |-> delay, hold |-> k(act.hold), tap |-> k(act.tap),
                                           config |-> act.config],
                              !.tracker = [coord |-> coord, timeout |-> TapHoldInterval]],
                     custom |-> "NoEvent"]
               ELSE LET r == do_action([lay EXCEPT !.tracker.timeout = 0], k(act.tap), coord, delay)
                    IN  [l |-> [r.l EXCEPT !.tracker.coord = coord], custom |-> "NoEvent"]
          [] act.t \in {"KeyCode", "MultipleKeyCodes"} ->
               [l |-> [track EXCEPT !.states = PushAll(lay.states, act.kcs, coord)],
                custom |-> "NoEvent"]
          [] act.t = "Layer" ->
               [l |-> [track EXCEPT !.states = Push(lay.states, LayerModifier(act.v, coord))],
                custom |-> "NoEvent"]
          [] act.t = "DefaultLayer" ->
               [l |-> [track EXCEPT !.default_layer =
                                       IF act.v < Len(LAYERS) THEN act.v ELSE lay.default_layer],
                custom |-> "NoEvent"]
          [] act.t = "Custom" ->
               IF Len(lay.states) < 64
               THEN [l |-> [track EXCEPT !.states = Append(lay.states, CustomState(coord))],
                     custom |-> "Press"]
               ELSE [l |-> track, custom |-> "NoEvent"]

\* State::release applied to every state (Layout::unstack, the Release arm)
ReleaseStates(states, c) ==
    [st |-> SelectSeq(states, LAMBDA x : x.coord # c),
     custom |-> IF \E i \in 1 .. Len(states) : states[i].coord = c /\ states[i].t = "Custom"
                THEN "Release" ELSE "NoEvent"]

\* Layout::unstack
unstack(lay, stk) ==
    IF stk.event.t = "Release"
    THEN LET r == ReleaseStates(lay.states, stk.event.coord)
         IN  [l |-> [lay EXCEPT !.states = r.st], custom |-> r.custom]
    ELSE do_action(lay, press_as_action(lay, stk.event.coord, current_layer(lay)),
                   stk.event.coord, stk.since)

\* Layout::waiting_into_hold
waiting_into_hold(lay) ==
    IF lay.waiting.active
    THEN LET w == lay.waiting
             cleared == [lay EXCEPT !.waiting = NoWaiting,
                                    !.tracker.timeout =
                                       IF w.coord = lay.tracker.coord THEN 0 ELSE @]
         IN  do_action(cleared, w.hold, w.coord, w.delay)
    ELSE [l |-> lay, custom |-> "NoEvent"]

\* Layout::waiting_into_tap
waiting_into_tap(lay) ==
    IF lay.waiting.active
    THEN do_action([lay EXCEPT !.waiting = NoWaiting], lay.waiting.tap, lay.waiting.coord, 0)
    ELSE [l |-> lay, custom |-> "NoEvent"]

\* u16 arithmetic
SatSub1(x) == IF x = 0 THEN 0 ELSE x - 1
SatAdd1(x) == IF x >= 65535 THEN 65535 ELSE x + 1
WrapSub(x, y) == (x - y) % 65536

\* WaitingState::tick: the decrement of the timeout; with HoldOnOtherKeyPress, Hold
\* when a press is stacked; then (all there is with HoldTapConfig::Default,
\* layout.rs:14) Tap on the key's own release, Hold at timeout 0
WaitingTick(w, stacked) ==
    LET tmo == SatSub1(w.timeout)
        rel == {i \in 1 .. Len(stacked) :
                  stacked[i].event.t = "Release" /\ stacked[i].event.coord = w.coord}
    IN  [w |-> [w EXCEPT !.timeout = tmo],
         what |-> IF /\ w.config = "HoldOnOtherKeyPress"
                     /\ \E i \in 1 .. Len(stacked) : stacked[i].event.t = "Press"
                  THEN "Hold"
                  ELSE IF rel # {}
                  THEN LET first == CHOOSE i \in rel : \A j \in rel : i <= j
                       IN  IF tmo >= WrapSub(w.delay, stacked[first].since)
                           THEN "Tap" ELSE "Hold"
                  ELSE IF tmo = 0 THEN "Hold" ELSE "NoOp"]

\* Layout::event: ArrayDeque<[Stacked; 16], Wrapping>::push_back; when full the
\* oldest entry is pushed out and handled at once
event(lay, ev) ==
    LET entry == [event |-> ev, since |-> 0]
    IN  IF Len(lay.stacked) < 16
        THEN [lay EXCEPT !.stacked = Append(@, entry)]
        ELSE LET popped == Head(lay.stacked)
                 l1 == [lay EXCEPT !.stacked = Append(Tail(@), entry)]
                 l2 == waiting_into_hold(l1).l
             IN  unstack(l2, popped).l

\* Layout::tick
tick(lay) ==
    LET l1 == [lay EXCEPT
                 !.stacked = [i \in 1 .. Len(@) |-> [@[i] EXCEPT !.since = SatAdd1(@)]],
                 !.tracker.timeout = SatSub1(@)]
    IN  IF l1.waiting.active
        THEN LET wt == WaitingTick(l1.waiting, l1.stacked)
                 l2 == [l1 EXCEPT !.waiting = wt.w]
             IN  CASE wt.what = "Hold" -> waiting_into_hold(l2)
                   [] wt.what = "Tap" -> waiting_into_tap(l2)
                   [] OTHER -> [l |-> l2, custom |-> "NoEvent"]
        ELSE IF l1.stacked = <<>>
             THEN [l |-> l1, custom |-> "NoEvent"]
             ELSE unstack([l1 EXCEPT !.stacked = Tail(@)], Head(l1.stacked))

\* Layout::keycodes: the keycode of every NormalKey state, in the order of states
keycodes(lay) ==
    LET ks == SelectSeq(lay.states, LAMBDA x : x.t = "NormalKey")
    IN  [i \in 1 .. Len(ks) |-> ks[i].kc]

(* ------------------------------------------------------------------ *)
(* keyberon::key_code::KbHidReport and keyberon::keyboard::Keyboard   *)
(* ------------------------------------------------------------------ *)

Modifiers == <<"LCtrl", "LShift", "LAlt", "LGui", "RCtrl", "RShift", "RAlt", "RGui">>

is_modifier(kc) == \E i \in 1 .. Len(Modifiers) : Modifiers[i] = kc

\* KeyCode::as_modifier_bit: 1 << (kc - LCtrl)
as_modifier_bit(kc) == 2 ^ ((CHOOSE i \in 1 .. Len(Modifiers) : Modifiers[i] = kc) - 1)

BitOr(byte, bit) == IF (byte \div bit) % 2 = 1 THEN byte ELSE byte + bit

\* KbHidReport::default: byte 0 the modifiers, bytes 2..8 the six key slots
EmptyReport == [mods |-> 0, keys |-> <<"No", "No", "No", "No", "No", "No">>]

set_all(rep, kc) == [rep EXCEPT !.keys = [i \in 1 .. 6 |-> kc]]

\* KbHidReport::pressed that drops the keycodes that find no free slot
pressedDropping(rep, kc) ==
    CASE kc = "No" -> rep
      [] kc \in {"ErrorRollOver", "PostFail", "ErrorUndefined"} -> set_all(rep, kc)
      [] is_modifier(kc) -> [rep EXCEPT !.mods = BitOr(@, as_modifier_bit(kc))]
      [] OTHER ->
           LET free == {i \in 1 .. 6 : rep.keys[i] = "No"}
           IN  IF free = {} THEN rep
               ELSE [rep EXCEPT !.keys[CHOOSE i \in free : \A j \in free : i <= j] = kc]

\* KbHidReport::pressed: a modifier sets its bit, another keycode takes the first
\* free slot, and with no free slot every slot becomes ErrorRollOver
pressed(rep, kc) ==
    CASE kc = "No" -> rep
      [] kc \in {"ErrorRollOver", "PostFail", "ErrorUndefined"} -> set_all(rep, kc)
      [] is_modifier(kc) -> [rep EXCEPT !.mods = BitOr(@, as_modifier_bit(kc))]
      [] OTHER ->
           LET free == {i \in 1 .. 6 : rep.keys[i] = "No"}
           IN  IF free = {} THEN set_all(rep, "ErrorRollOver")
               ELSE [rep EXCEPT !.keys[CHOOSE i \in free : \A j \in free : i <= j] = kc]

\* impl FromIterator<KeyCode> for KbHidReport (main.rs:221 collect())
RECURSIVE collectFrom(_, _)
collectFrom(rep, codes) ==
    IF codes = <<>> THEN rep ELSE collectFrom(pressed(rep, Head(codes)), Tail(codes))

collect(codes) == collectFrom(EmptyReport, codes)

\* Keyboard::set_keyboard_report: records the report and answers whether it changed
set_keyboard_report(cur, rep) ==
    [report |-> rep, changed |-> rep # cur]

(* ------------------------------------------------------------------ *)
(* State                                                              *)
(* ------------------------------------------------------------------ *)

VARIABLES
    debouncer,   \* Local.debouncer (main.rs:72)
    layout,      \* Shared.layout (main.rs:65)
    usb_report,  \* the report held by usb_class's Keyboard device (main.rs:63)
    ep_busy,     \* the interrupt-IN endpoint of usb_class still holds a packet
    pc,          \* position of the tick handler: idle, layout_tick, report, set_report,
                 \* write, writing, boot
    inside,      \* the handlers that are inside a lock closure on usb_class
    report,      \* the tick handler's local report (main.rs:221)
    pressable,   \* the switches that are operated in this run
    base,        \* the switches that are held down from before the run to its end
    watch,       \* which of the observations below are kept in this run
    raw,         \* the snapshot read by the latest scan
    run,         \* per switch: for how many scans in a row it has read as it reads now
    matrun,      \* for how many scans in a row the whole snapshot has been the same
    prevlen,     \* matrun of the snapshot before the latest change
    edges,       \* number of scans that read a snapshot differing from the one before
    emitted,     \* the events of the latest debouncer.events() call
    repeat,      \* scans since (and including) the latest emission that read its snapshot
    delivered,   \* every event passed to layout.event, in order
    custom,      \* what the latest layout.tick() returned
    written,     \* every report handed to usb_class.write, in order
    track,       \* hold-tap observation of the latest press (see ObserveTrack)
    probe,       \* the action of the latest press taken up by layout.tick()
    accepted     \* every report a usb_class.write took with a positive count, in order

devvars == <<debouncer, layout, usb_report, ep_busy, pc, inside, report>>
obsvars == <<raw, run, matrun, prevlen, edges, emitted, repeat, delivered, custom, written,
             track, probe, accepted>>
vars == <<devvars, pressable, base, watch, obsvars>>

(* ------------------------------------------------------------------ *)
(* Bounds of the model                                                *)
(* ------------------------------------------------------------------ *)

\* number of scans of a run that may read a snapshot differing from the one before
MaxChanges == 5

\* how far from the hold-tap key's press, and from its timeout, the switches move
\* in the runs that watch "near"
Slack == 8

\* the run lengths are counted up to here
RunCap == NbBounce + 3

Min(x, y) == IF x <= y THEN x ELSE y

\* the keycodes the four hold-tap keys are to give
Claimed ==
    [c \in {<<9, 1>>, <<4, 6>>, <<9, 0>>, <<2, 5>>} |->
        CASE c = <<9, 1>> -> [hold |-> "LShift", tap |-> "Space"]
          [] c = <<4, 6>> -> [hold |-> "LCtrl", tap |-> "Tab"]
          [] c = <<9, 0>> -> [hold |-> "LAlt", tap |-> "Enter"]
          [] c = <<2, 5>> -> [hold |-> "MediaNextSong", tap |-> "MediaPlayPause"]]

NoTrack ==
    [seen |-> FALSE, down |-> FALSE, held |-> 0, len |-> "none", quick |-> FALSE, age |-> 0,
     rel |-> 0, other |-> FALSE, holdSeen |-> FALSE, tapOn |-> FALSE, tapUps |-> 0]

NoProbe == [done |-> FALSE, coord |-> <<0, 0>>, layers |-> <<>>, default |-> 0, act |-> NoOp]

\* the loop of main.rs:201-212 passing on the presses only
RECURSIVE HandleEventsPressOnly(_, _)
HandleEventsPressOnly(lay, evs) ==
    IF evs = <<>> THEN lay
    ELSE HandleEventsPressOnly(IF Head(evs).t = "Press" THEN event(lay, Head(evs)) ELSE lay,
                               Tail(evs))

\* the loop of main.rs:201-212 taking the events last to first
RECURSIVE HandleEventsReversed(_, _)
HandleEventsReversed(lay, evs) ==
    IF evs = <<>> THEN lay
    ELSE HandleEventsReversed(event(lay, evs[Len(evs)]), SubSeq(evs, 1, Len(evs) - 1))

\* main.rs:201-212  for event in debouncer.events(..) { layout.event(event) }
RECURSIVE HandleEvents(_, _)
HandleEvents(lay, evs) ==
    IF evs = <<>> THEN lay ELSE HandleEvents(event(lay, Head(evs)), Tail(evs))

\* main.rs:201-214  what one run of the tick handler makes of debouncer and layout
HandlerStep(st, snap) ==
    LET e == events(st.d, snap)
    IN  [d |-> e.d, l |-> tick(HandleEvents(st.l, e.evs)).l]

RECURSIVE Settle(_, _, _)
Settle(st, snap, n) == IF n = 0 THEN st ELSE Settle(HandlerStep(st, snap), snap, n - 1)

\* debouncer and layout once the groups of switches in `downs` have been pressed
\* one group after the other, the switches of a group in the same scan, and each
\* group read until its events have gone through the layout
RECURSIVE AfterPressing(_, _, _)
AfterPressing(st, snap, downs) ==
    IF downs = <<>> THEN st
    ELSE AfterPressing(Settle(st, snap \cup Head(downs), NbBounce + Cardinality(Head(downs))),
                       snap \cup Head(downs), Tail(downs))

\* a run that starts with debouncer and layout as in st, the switches of `held`
\* down for the whole run, and that operates the switches of `keys`
InitAt(st, held, keys, obs) ==
    /\ watch = obs
    /\ base = held
    /\ debouncer = st.d /\ layout = st.l
    /\ usb_report = EmptyReport
    /\ ep_busy = FALSE
    /\ pc = "idle"
    /\ report = EmptyReport
    /\ pressable = keys
    /\ raw = held
    /\ run = [c \in keys |-> 0]
    /\ matrun = 0
    /\ prevlen = 0
    /\ edges = 0
    /\ emitted = <<>>
    /\ repeat = 0
    /\ delivered = <<>>
    /\ custom = "NoEvent"
    /\ written = <<>>
    /\ track = NoTrack
    /\ probe = NoProbe
    /\ inside = {}
    /\ accepted = <<>>

\* the state after init (main.rs:163-178), and after the groups of `downs` have
\* then been pressed in that order; the run operates the switches of `keys`
InitFrom(downs, keys, obs) ==
    InitAt(AfterPressing([d |-> DebouncerNew, l |-> LayoutNew], {}, downs),
           UNION {downs[i] : i \in 1 .. Len(downs)}, keys, obs)

InitWith(keys, obs) == InitFrom(<<>>, keys, obs)

(* ------------------------------------------------------------------ *)
(* The tick handler (main.rs:191-229)                                 *)
(* ------------------------------------------------------------------ *)

\* what the scan of snapshot snap adds to the observations
ObserveScan(snap, evs) ==
    /\ raw' = snap
    /\ edges' = IF snap = raw THEN edges ELSE edges + 1
    /\ emitted' = evs
    /\ IF "scan" \in watch
       THEN /\ run' = [c \in pressable |->
                        IF (c \in snap) = (c \in raw) THEN Min(run[c] + 1, RunCap) ELSE 1]
            /\ matrun' = IF snap = raw THEN Min(matrun + 1, RunCap) ELSE 1
            /\ prevlen' = IF snap = raw THEN prevlen ELSE matrun
            /\ repeat' = IF repeat >= 1 /\ snap = raw THEN Min(repeat + 1, RunCap)
                         ELSE IF evs # <<>> THEN 1 ELSE 0
       ELSE UNCHANGED <<run, matrun, prevlen, repeat>>
    /\ delivered' = IF "log" \in watch THEN delivered \o evs ELSE delivered

\* the snapshots the scan may read: any set of the operated switches, within
\* the budget of changes; under "near" the switches move only within Slack ticks
\* of the hold-tap key's latest press or of its timeout, or later
Readable(snap) ==
    /\ snap \in {base \cup x : x \in SUBSET pressable}
    /\ snap # raw => edges < MaxChanges
    /\ snap # raw /\ "near" \in watch /\ track.seen =>
          track.age <= Slack \/ track.age >= TIMEOUT - Slack

\* what layout.tick() adds to the observation of the run's hold-tap key A:
\*   seen      a press of A bound to a hold-tap has been passed to the layout
\*   down      that press has not been followed by A's release yet
\*   held      ticks since the press while A is down (up to TIMEOUT + 1)
\*   len       the press ended before ("short"), at ("edge") or after ("long")
\*             TIMEOUT ticks
\*   quick     the press came less than tap_hold_interval ticks after the press
\*             before, which was not quick itself
\*   age       ticks since the latest press of A (up to tap_hold_interval)
\*   rel       ticks since the release (up to 2)
\*   other     another key's press was passed while A was down, less than
\*             tap_hold_interval ticks after A's press
\*   holdSeen  the hold keycode has been active since the press
\*   tapOn     the tap keycode is active
\*   tapUps    times the tap keycode became active since the press (up to 2)
ObserveTrack(lay, evs, after) ==
    IF "track" \notin watch \/ pressable \cap DOMAIN Claimed = {} THEN track' = track
    ELSE LET A == CHOOSE c \in pressable \cap DOMAIN Claimed : TRUE
             ht == Claimed[A]
             kcs == {keycodes(after)[i] : i \in 1 .. Len(keycodes(after))}
             pressA == /\ \E i \in 1 .. Len(evs) : evs[i] = Press(A)
                       /\ press_as_action(lay, A, current_layer(lay)).t = "HoldTap"
             relA == \E i \in 1 .. Len(evs) : evs[i] = Release(A)
             otherPress == \E i \in 1 .. Len(evs) : evs[i].t = "Press" /\ evs[i].coord # A
             tapNow == ht.tap \in kcs
             d == track.held + 1
         IN  track' =
               IF pressA
               THEN [seen |-> TRUE, down |-> TRUE, held |-> 0, len |-> "none",
                     quick |-> track.seen /\ ~track.quick /\ track.age + 1 < TapHoldInterval,
                     age |-> 0, rel |-> 0, other |-> FALSE,
                     holdSeen |-> ht.hold \in kcs, tapOn |-> tapNow,
                     tapUps |-> IF tapNow THEN 1 ELSE 0]
               ELSE [seen |-> track.seen,
                     down |-> track.down /\ ~relA,
                     held |-> IF track.down /\ ~relA THEN Min(d, TIMEOUT + 1) ELSE 0,
                     len |-> IF track.down /\ relA
                             THEN IF d < TIMEOUT THEN "short"
                                  ELSE IF d = TIMEOUT THEN "edge" ELSE "long"
                             ELSE track.len,
                     quick |-> track.quick,
                     age |-> Min(track.age + 1, TapHoldInterval),
                     rel |-> IF track.down THEN 0 ELSE Min(track.rel + 1, 2),
                     other |-> track.other
                               \/ (track.down /\ otherPress /\ d < TapHoldInterval),
                     holdSeen |-> track.holdSeen \/ (track.seen /\ ht.hold \in kcs),
                     tapOn |-> tapNow,
                     tapUps |-> IF track.seen /\ tapNow /\ ~track.tapOn
                                THEN Min(track.tapUps + 1, 2) ELSE track.tapUps]

\* the layers of the LayerModifier states, oldest first
RECURSIVE ActiveLayers(_)
ActiveLayers(states) ==
    IF states = <<>> THEN <<>>
    ELSE IF Head(states).t = "LayerModifier"
         THEN <<Head(states).v>> \o ActiveLayers(Tail(states))
         ELSE ActiveLayers(Tail(states))

\* what layout.tick() adds to the observation of presses: when it takes a press
\* off the stack, the coordinate, the layers active then and the action that
\* unstack gets from press_as_action
ObserveProbe(lay) ==
    probe' =
      IF /\ "probe" \in watch /\ ~lay.waiting.active /\ lay.stacked # <<>>
         /\ Head(lay.stacked).event.t = "Press"
      THEN [done |-> TRUE, coord |-> Head(lay.stacked).event.coord,
            layers |-> ActiveLayers(lay.states), default |-> lay.default_layer,
            act |-> press_as_action(lay, Head(lay.stacked).event.coord, current_layer(lay))]
      ELSE probe

\* the submission with the answer of set_keyboard_report ignored
HandedAlways(log, skr, rep) == IF "log" \in watch THEN Append(log, rep) ELSE log

\* main.rs:222-228  if set_keyboard_report(report.clone()) { while let Ok(0) = write(..) {} }
\* the reports handed to usb_class.write, in order
Handed(log, skr, rep) == IF skr.changed /\ "log" \in watch THEN Append(log, rep) ELSE log

\* fn tick (main.rs:192-229) from entry to return, for a scan that reads snap:
\* debounce, pass the events to the layout, layout.tick(), jump to the bootloader
\* on CustomEvent::Release, else build the report and hand it to the transport
\* when set_keyboard_report says it changed
Tick(snap) ==
    LET e == events(debouncer, snap)
        l1 == HandleEvents(layout, e.evs)
        tk == tick(l1)
        rep == collect(keycodes(tk.l))
        skr == set_keyboard_report(usb_report, rep)
    IN  /\ pc = "idle"
        /\ Readable(snap)
        /\ debouncer' = e.d
        /\ layout' = tk.l
        /\ ObserveScan(snap, e.evs)
        /\ ObserveTrack(l1, e.evs, tk.l)
        /\ ObserveProbe(l1)
        /\ custom' = tk.custom
        /\ IF tk.custom = "Release"
           THEN /\ pc' = "boot"
                /\ UNCHANGED <<report, usb_report, written>>
           ELSE /\ pc' = "idle"
                /\ report' = rep
                /\ usb_report' = skr.report
                /\ written' = Handed(written, skr, rep)
        /\ UNCHANGED <<ep_busy, inside, pressable, base, watch, accepted>>

TickAny == \E x \in SUBSET pressable : Tick(base \cup x)

\* the debouncer under two plain keys, (1,2) = Y and (1,3) = Z
Init == InitWith({<<1, 2>>, <<1, 3>>}, {"scan"})

Next == TickAny

Spec == Init /\ [][Next]_vars

(* ------------------------------------------------------------------ *)
(* The debouncer                                                      *)
(* ------------------------------------------------------------------ *)

InitY == InitWith({<<1, 2>>}, {"scan", "log"})

SpecY == InitY /\ [][Next]_vars

ReportY == collect(<<"Y">>)

\* the run so far: (1,2) read pressed on the latest `run` scans and never before
FirstPress == edges = 1 /\ raw = {<<1, 2>>}

\* the run so far: (1,2) read pressed on prevlen scans in a row, released since
PressedThenReleased == edges = 2 /\ raw = {}

TickScan ==
    \E snap \in {base \cup x : x \in SUBSET pressable} :
        LET e == events(debouncer, snap)
        IN  /\ pc = "idle" /\ inside = {}
            /\ Readable(snap)
            /\ debouncer' = e.d
            /\ layout' = HandleEvents(layout, e.evs)
            /\ ObserveScan(snap, e.evs)
            /\ pc' = "layout_tick"
            /\ UNCHANGED <<usb_report, ep_busy, inside, report, pressable, base, watch, custom,
                           written, track, probe, accepted>>

\* main.rs:214-218 with a bootload that returns
TickLayoutBootReturns ==
    LET tk == tick(layout)
    IN  /\ pc = "layout_tick" /\ inside = {}
        /\ layout' = tk.l
        /\ custom' = tk.custom
        /\ ObserveTrack(layout, emitted, tk.l)
        /\ ObserveProbe(layout)
        /\ pc' = "report"
        /\ UNCHANGED <<debouncer, usb_report, ep_busy, inside, report, pressable, base, watch,
                       written, accepted,
                       raw, run, matrun, prevlen, edges, emitted, repeat, delivered>>

\* main.rs:214-218  layout.tick(), and the jump to the bootloader, which never
\* returns, on CustomEvent::Release
TickLayout ==
    LET tk == tick(layout)
    IN  /\ pc = "layout_tick" /\ inside = {}
        /\ layout' = tk.l
        /\ custom' = tk.custom
        /\ ObserveTrack(layout, emitted, tk.l)
        /\ ObserveProbe(layout)
        /\ pc' = IF tk.custom = "Release" THEN "boot" ELSE "report"
        /\ UNCHANGED <<debouncer, usb_report, ep_busy, inside, report, pressable, base, watch,
                       written, accepted,
                       raw, run, matrun, prevlen, edges, emitted, repeat, delivered>>

\* what the steps of the report submission leave alone
SubmitUnchanged ==
    UNCHANGED <<debouncer, layout, pressable, base, watch, custom, track, probe,
                raw, run, matrun, prevlen, edges, emitted, repeat, delivered>>

\* main.rs:221-225  the report is built and the first usb_class.lock is entered:
\* the ceiling of usb_class is the priority of the USB handlers, which stay
\* pending while tick is inside
TickCollect ==
    /\ pc = "report" /\ inside = {}
    /\ report' = collect(keycodes(layout))
    /\ inside' = {"tick"}
    /\ pc' = "set_report"
    /\ SubmitUnchanged
    /\ UNCHANGED <<usb_report, ep_busy, written, accepted>>

\* main.rs:225-228 with the answer of set_keyboard_report ignored: every tick writes
TickReportAlways ==
    LET skr == set_keyboard_report(usb_report, report)
    IN  /\ pc = "set_report" /\ inside = {"tick"}
        /\ usb_report' = skr.report
        /\ written' = HandedAlways(written, skr, report)
        /\ inside' = {}
        /\ pc' = "write"
        /\ SubmitUnchanged
        /\ UNCHANGED <<ep_busy, report, accepted>>

\* set_keyboard_report and the first write attempt inside one lock
TickReportKeepsLock ==
    LET skr == set_keyboard_report(usb_report, report)
    IN  /\ pc = "set_report" /\ inside = {"tick"}
        /\ usb_report' = skr.report
        /\ written' = Handed(written, skr, report)
        /\ inside' = IF skr.changed THEN {"tick"} ELSE {}
        /\ pc' = IF skr.changed THEN "writing" ELSE "idle"
        /\ SubmitUnchanged
        /\ UNCHANGED <<ep_busy, report, accepted>>

\* main.rs:225-226  set_keyboard_report inside the lock, which is left on return
TickReport ==
    LET skr == set_keyboard_report(usb_report, report)
    IN  /\ pc = "set_report" /\ inside = {"tick"}
        /\ usb_report' = skr.report
        /\ written' = Handed(written, skr, report)
        /\ inside' = {}
        /\ pc' = IF skr.changed THEN "write" ELSE "idle"
        /\ SubmitUnchanged
        /\ UNCHANGED <<ep_busy, report, accepted>>

\* main.rs:227  the loop enters usb_class.lock for one write attempt
TickWriteLock ==
    /\ pc = "write" /\ inside = {}
    /\ inside' = {"tick"}
    /\ pc' = "writing"
    /\ SubmitUnchanged
    /\ UNCHANGED <<usb_report, ep_busy, report, written, accepted>>

\* main.rs:227  one k.write(report.as_bytes()) inside the lock, which is left on
\* return: Ok(0) while the endpoint still holds the packet before, and then the loop
\* goes round; else the endpoint takes the report (Ok(n), n > 0) or the write fails
\* (Err), and either way the loop and the handler end
TickWrite ==
    \E res \in {"Ok", "Err"} :
        /\ pc = "writing" /\ inside = {"tick"}
        /\ inside' = {}
        /\ pc' = IF ep_busy THEN "write" ELSE "idle"
        /\ ep_busy' = IF ~ep_busy /\ res = "Ok" THEN TRUE ELSE ep_busy
        /\ accepted' = IF ~ep_busy /\ res = "Ok" /\ "log" \in watch
                       THEN Append(accepted, report) ELSE accepted
        /\ SubmitUnchanged
        /\ UNCHANGED <<usb_report, report, written>>

\* a USB handler is taken: it preempts tick wherever tick is outside its locks, and
\* not the other USB handler, which has its priority
usb_lock(h) ==
    /\ pc # "boot" /\ inside = {}
    /\ inside' = {h}
    /\ UNCHANGED <<debouncer, layout, usb_report, ep_busy, pc, report, pressable, base, watch,
                   obsvars>>

\* main.rs:246-250  usb_poll inside the handler's lock: usb_dev.poll and
\* keyboard.poll; a completed IN transfer frees the endpoint; the handler returns
usb_poll(h) ==
    /\ h \in inside
    /\ inside' = inside \ {h}
    /\ \E done \in BOOLEAN : ep_busy' = (ep_busy /\ ~done)
    /\ UNCHANGED <<debouncer, layout, usb_report, pc, report, pressable, base, watch, obsvars>>

\* a USB handler that resets the layout
usb_txResetsLayout ==
    /\ "usb_tx" \in inside
    /\ inside' = inside \ {"usb_tx"}
    /\ layout' = LayoutNew
    /\ UNCHANGED <<debouncer, ep_busy, usb_report, pc, report, pressable, base, watch, obsvars>>

\* usb_tx taken while tick is inside its lock
usb_tx_lockUnmasked ==
    /\ pc # "boot" /\ inside \in {{}, {"tick"}}
    /\ inside' = inside \cup {"usb_tx"}
    /\ UNCHANGED <<debouncer, layout, usb_report, ep_busy, pc, report, pressable, base, watch,
                   obsvars>>

\* main.rs:232-237  fn usb_tx (priority 3, shared = [usb_dev, usb_class]): entry
usb_tx_lock == usb_lock("usb_tx")

\* main.rs:232-237  fn usb_tx: the body and the return
usb_tx == usb_poll("usb_tx")

\* main.rs:239-244  fn usb_rx (priority 3, shared = [usb_dev, usb_class]): entry
usb_rx_lock == usb_lock("usb_rx")

\* main.rs:239-244  fn usb_rx: the body and the return
usb_rx == usb_poll("usb_rx")

TickSteps == TickScan \/ TickLayout \/ TickCollect \/ TickReport \/ TickWriteLock \/ TickWrite

NextSteps == TickSteps \/ usb_tx_lock \/ usb_tx \/ usb_rx_lock \/ usb_rx

\* the way to the bootloader key: (7,6) is layer 1, (4,4) is layer 3 on layer 1,
\* (1,0) is Custom(()) on layer 3; with (4,4) first, (7,6) is s!(RBracket) on layer 2
InitBoot == InitWith({<<7, 6>>, <<4, 4>>, <<1, 0>>}, {})

SpecBoot == InitBoot /\ [][NextSteps]_vars

\* C9: the tick whose layout.tick() returns CustomEvent::Release ends in the
\* bootloader without building or handing over a report, and nothing happens after
\* the jump: no report, no write, no tick, no USB handler.
C9_BootTerminal ==
    /\ [](custom = "Release" => pc = "boot")
    /\ [][pc' = "boot" => UNCHANGED <<report, usb_report, written, ep_busy>>]_vars
    /\ [][pc = "boot" => UNCHANGED vars]_vars

\* the jump taken on the release of the Custom(()) key
C9_Witness ==
    /\ pc = "boot" /\ custom = "Release" /\ emitted = <<Release(<<1, 0>>)>>
    /\ current_layer(layout) = 3

InitHoldTap ==
    \/ \E c \in {<<4, 6>>, <<9, 0>>, <<9, 1>>} : InitWith({c}, {"track"})
    \/ InitFrom(<<{<<2, 0>>}, {<<4, 4>>}>>, {<<2, 5>>}, {"track"})

SpecHoldTap == InitHoldTap /\ [][Next]_vars


HoldActive == Claimed[CHOOSE c \in pressable \cap DOMAIN Claimed : TRUE].hold
                \in {keycodes(layout)[i] : i \in 1 .. Len(keycodes(layout))}

InitRoll == InitWith({<<9, 1>>, <<1, 2>>}, {"track", "near"})

SpecRoll == InitRoll /\ [][Next]_vars

\* both keys are up and the layout has drained
BothReleased ==
    /\ raw = {} /\ ~track.down
    /\ layout.states = <<>> /\ layout.stacked = <<>> /\ ~layout.waiting.active

InitLayers ==
    \/ \E b \in {<<2, 0>>, <<7, 6>>} : \E c \in Coords \ {b} : InitFrom(<<{b}>>, {c}, {"probe"})
    \/ \E c \in Coords \ {<<4, 4>>, <<2, 0>>} :
          \/ InitFrom(<<{<<4, 4>>}, {<<2, 0>>}>>, {c}, {"probe"})
          \/ InitFrom(<<{<<2, 0>>}, {<<4, 4>>}>>, {c}, {"probe"})
    \/ InitFrom(<<{<<4, 4>>}, {<<2, 0>>}>>, {<<9, 2>>, <<7, 6>>}, {"probe"})

SpecLayers == InitLayers /\ [][Next]_vars

\* what a press on the default layer does: its binding, a transparent one being
\* no action
OnDefault(default, coord) ==
    IF Binding(default, coord).t = "Trans" THEN NoOp ELSE Binding(default, coord)

\* the layer a press looks at first
Top(p) == IF p.layers = <<>> THEN p.default ELSE p.layers[Len(p.layers)]

\* C5: with layer 1 active over default layer 0, a press of a coordinate that is
\* transparent on layer 1 gets the action layer 0 binds there (none where layer 0 is
\* transparent as well).
C5_Layer1Transparent ==
    probe.done /\ probe.layers = <<1>> /\ Binding(1, probe.coord).t = "Trans"
        => probe.default = 0 /\ probe.act = OnDefault(0, probe.coord)

\* (1,1), transparent on layer 1, pressed while (2,0) holds layer 1: J of layer 0
C5_Witness ==
    /\ probe.done /\ probe.layers = <<1>> /\ probe.coord = <<1, 1>>
    /\ base = {<<2, 0>>} /\ probe.act = k("J")
    /\ \E i \in 1 .. Len(layout.states) : layout.states[i] = NormalKey("J", <<1, 1>>)

\* the first binding that is not transparent, from the most recently activated
\* layer down through the active layers to the default layer
RECURSIVE ThroughActive(_, _, _)
ThroughActive(layers, default, coord) ==
    IF layers = <<>> THEN OnDefault(default, coord)
    ELSE IF Binding(layers[Len(layers)], coord).t # "Trans"
         THEN Binding(layers[Len(layers)], coord)
         ELSE ThroughActive(SubSeq(layers, 1, Len(layers) - 1), default, coord)

InitReport ==
    InitFrom(<<{<<4, 5>>, <<1, 1>>, <<1, 2>>, <<1, 3>>, <<1, 4>>, <<1, 5>>}>>,
             {<<1, 6>>, <<2, 2>>, <<3, 0>>}, {})

SpecReport == InitReport /\ [][Next]_vars

\* the active keycodes that are not modifiers, in their order
NonModifiers == SelectSeq(keycodes(layout), LAMBDA x : ~is_modifier(x))

\* byte 0 of the report has exactly the bits of the active modifiers
ModifierBits ==
    \A i \in 1 .. Len(Modifiers) :
        ((report.mods \div 2 ^ (i - 1)) % 2 = 1)
            <=> \E j \in 1 .. Len(keycodes(layout)) : keycodes(layout)[j] = Modifiers[i]

InitSubmit == InitWith({<<1, 2>>}, {"log"})

SpecSubmit == InitSubmit /\ [][NextSteps]_vars

\* C11: a tick goes to the write loop, and hands its report over, only when the
\* report it built differs from the one set_keyboard_report recorded before; so no
\* two reports handed over in a row are equal, the recorded report is that of the
\* latest tick, and a tick that builds the same report again writes nothing.
C11_WriteOnlyChanged ==
    /\ [](\A i \in 1 .. Len(written) - 1 : written[i] # written[i + 1])
    /\ [](pc = "idle" => usb_report = report /\ report = collect(keycodes(layout)))
    /\ [][written' # written =>
             /\ pc = "set_report" /\ report # usb_report
             /\ written' = Append(written, report) /\ pc' = "write"]_vars
    /\ [][pc' \in {"write", "writing"} =>
             pc \in {"write", "writing"} \/ (pc = "set_report" /\ report # usb_report)]_vars
    /\ [][pc = "set_report" /\ report = usb_report /\ pc' # pc =>
             pc' = "idle" /\ written' = written]_vars

\* after two reports have gone out, a tick has built the report recorded already
\* and ends without a write
C11_Witness ==
    /\ Len(written) = 2 /\ pc = "set_report" /\ report = usb_report
    /\ written = <<ReportY, EmptyReport>>

(* ------------------------------------------------------------------ *)
(* Termination of the write loop (main.rs:227)                        *)
(* ------------------------------------------------------------------ *)

\* the same system with the scheduling the hardware gives: the timer keeps raising
\* tick, whose steps are taken even if USB interrupts come in between them again
\* and again, and a USB handler that was entered returns; when the host raises a
\* USB interrupt, and whether the IN transfer has completed by then, is the host's
\* affair and is left open
SpecSubmitFair ==
    /\ InitSubmit /\ [][NextSteps]_vars
    /\ SF_vars(TickScan) /\ SF_vars(TickLayout) /\ SF_vars(TickCollect)
    /\ SF_vars(TickReport) /\ SF_vars(TickWriteLock) /\ SF_vars(TickWrite)
    /\ WF_vars(usb_tx) /\ WF_vars(usb_rx)

\* C12: a tick handler that has come to its write loop runs to completion,
\* whatever the host and the USB interrupts do
C12_TickCompletes == (pc = "write") ~> (pc = "idle")

(* ------------------------------------------------------------------ *)
(* Two keys of one keycode (main.rs:221)                              *)
(* ------------------------------------------------------------------ *)

\* two keys of one keycode: with (2,0) = (1) held, (2,3) = s!(Kb7) and (2,4) =
\* a!(Kb7) of layer 1; on layer 0, (3,0) and (8,6), both LGui
InitSame ==
    \/ InitFrom(<<{<<2, 0>>}>>, {<<2, 3>>, <<2, 4>>}, {})
    \/ InitWith({<<3, 0>>, <<8, 6>>}, {})

SpecSame == InitSame /\ [][Next]_vars

\* how often kc occurs in a sequence of keycodes
Occurrences(codes, kc) == Cardinality({i \in 1 .. Len(codes) : codes[i] = kc})

\* the keycodes that two different held coordinates both give
Shared ==
    {kc \in {layout.states[i].kc : i \in 1 .. Len(layout.states)} :
        \E i, j \in 1 .. Len(layout.states) :
            /\ layout.states[i].t = "NormalKey" /\ layout.states[j].t = "NormalKey"
            /\ layout.states[i].kc = kc /\ layout.states[j].kc = kc
            /\ layout.states[i].coord # layout.states[j].coord}

C14_LockScope ==
    /\ [](Cardinality(inside) <= 1)
    /\ []("tick" \in inside <=> pc \in {"set_report", "writing"})
    /\ [][("tick" \in inside => "tick" \notin inside')
          /\ (inside # {} => inside' = {})]_vars
    /\ [](pc = "write" /\ inside = {} => ENABLED usb_tx_lock /\ ENABLED usb_rx_lock)

\* the endpoint still holds the report of Y, tick is in the write loop with the empty
\* report, and usb_rx runs between two of its attempts
C14_Witness ==
    /\ pc = "write" /\ inside = {"usb_rx"} /\ ep_busy
    /\ written = <<ReportY, EmptyReport>> /\ accepted = <<ReportY>>

(* ------------------------------------------------------------------ *)
(* Reports recorded and reports accepted (main.rs:222-228)            *)
(* ------------------------------------------------------------------ *)

\* C15: a tick that recorded a new report does not finish before a write of that
\* report was accepted, so between ticks the reports the transport accepted are the
\* reports that were recorded, in their order, also when a write ended in an error
C15_NoChangeDropped == pc = "idle" => accepted = written

(* ------------------------------------------------------------------ *)
(* Events, then one layout.tick() (main.rs:200-214)                   *)
(* ------------------------------------------------------------------ *)

\* the events as entries of the layout's queue, just queued
Queued(evs) == [i \in 1 .. Len(evs) |-> [event |-> evs[i], since |-> 0]]

\* C16: in one run of tick every event the debouncer emits goes to layout.event
\* exactly once, in the order of emission, which is the order of the scan, before
\* the one layout.tick() of that run; layout.tick() is called once per run, events
\* or not, and nothing else touches the layout
C16_EventsThenOneTick ==
    /\ [][pc = "idle" /\ pc' # pc =>
            /\ pc' = "layout_tick"
            /\ layout' = [layout EXCEPT !.stacked = @ \o Queued(emitted')]
            /\ \A i, j \in 1 .. Len(emitted') :
                   i < j => ScanIndex(emitted'[i].coord) < ScanIndex(emitted'[j].coord)]_vars
    /\ [][pc = "layout_tick" /\ pc' # pc =>
            /\ pc' \in {"report", "boot"}
            /\ layout' = tick(layout).l]_vars
    /\ [][layout' # layout => pc \in {"idle", "layout_tick"} /\ pc' # pc]_vars
    /\ [][pc \notin {"idle", "layout_tick"} => pc' # "layout_tick"]_vars

\* the three switches changed in one scan: their three events are queued, none has
\* been taken yet, and layout.tick() comes next
C16_Witness ==
    /\ pc = "layout_tick"
    /\ emitted = <<Press(<<1, 0>>), Press(<<4, 4>>), Press(<<7, 6>>)>>
    /\ layout.stacked = Queued(emitted)

(* ------------------------------------------------------------------ *)
(* Press and Release alternate (main.rs:174, 200-212)                 *)
(* ------------------------------------------------------------------ *)

\* Y (1,2) and Z (1,3), with every event passed to the layout on record
InitAlternate == InitWith({<<1, 2>>, <<1, 3>>}, {"log"})

SpecAlternate == InitAlternate /\ [][Next]_vars

\* the events of coordinate c among those passed to the layout, in order
EventsOf(c) == SelectSeq(delivered, LAMBDA e : e.coord = c)

\* C17: the events the debouncer emits for a coordinate, which are the ones the
\* layout receives for it, go Press, Release, Press, ... and start with Press
C17_Alternate ==
    \A c \in pressable :
        \A i \in 1 .. Len(EventsOf(c)) :
            EventsOf(c)[i].t = IF i % 2 = 1 THEN "Press" ELSE "Release"

\* Y was pressed, released and pressed again while Z was pressed in between
C17_Witness ==
    /\ Len(EventsOf(<<1, 2>>)) = 3
    /\ Len(EventsOf(<<1, 3>>)) >= 1

(* ------------------------------------------------------------------ *)
(* The way to the bootloader (layout.rs:98-112, main.rs:214-218)      *)
(* ------------------------------------------------------------------ *)

\* debouncer and layout once (2,0), (4,4) and (9,2) went down in one scan, which
\* takes layer 1, on it layer 3, and on that DefaultLayer(4), and were let go again
OnQwertz ==
    Settle(AfterPressing([d |-> DebouncerNew, l |-> LayoutNew], {},
                         <<{<<2, 0>>, <<4, 4>>, <<9, 2>>}>>),
           {}, NbBounce + 4)

\* the way to the bootloader: (2,0) is layer 1, (4,4) is layer 3 on layer 1, (1,0)
\* is Custom(()) on layer 3; or, with (7,6) and (4,4) held from the start, (6,6) and
\* (1,0); and default layer 4 with no key held, where (1,0) is Tab, (4,4) LGui and
\* (6,6) transparent
InitJump ==
    \/ InitWith({<<2, 0>>, <<4, 4>>, <<1, 0>>}, {"probe"})
    \/ InitFrom(<<{<<7, 6>>}, {<<4, 4>>}>>, {<<6, 6>>, <<1, 0>>}, {"probe"})
    \/ InitAt(OnQwertz, {}, {<<1, 0>>, <<6, 6>>, <<4, 4>>}, {"probe"})

SpecJump == InitJump /\ [][Next]_vars

BootKeys == {<<1, 0>>, <<6, 6>>}

\* the layout holds the Custom state of coordinate c
HasCustom(lay, c) == \E i \in 1 .. Len(lay.states) : lay.states[i] = CustomState(c)

InitPair ==
    \E one \in {<<2, 0>>, <<7, 6>>} : \E two \in {<<4, 4>>, <<9, 2>>} :
        InitWith({one, two}, {"log"})

SpecPair == InitPair /\ [][Next]_vars

\* both keys are down for the debouncer and the layout has taken their events
BothHeld == pressable \subseteq debouncer.cur /\ layout.stacked = <<>>

\* C19 as stated: with default layer 0, whenever a layer-1 key and a layer-2 key
\* are both held the current layer is 3, for every pair and either order
C19_AsStated == layout.default_layer = 0 /\ BothHeld => current_layer(layout) = 3

\* C19 as amended: with default layer 0 and no other key held, once the two keys
\* have each been pressed once and both are held, the current layer is 3, except
\* that (7,6) pressed after the layer-2 key is s!(RBracket) of layer 2 and leaves
\* layer 2 current
C19_PairGivesLayer3 ==
    /\ layout.default_layer = 0 /\ BothHeld
    /\ Len(delivered) = 2 /\ delivered[1].t = "Press" /\ delivered[2].t = "Press"
    => current_layer(layout) = IF delivered[2].coord = <<7, 6>> THEN 2 ELSE 3

\* (9,2) went down first, which makes layer 2 current, then (2,0), (3) on layer 2
C19_Witness ==
    /\ BothHeld /\ delivered = <<Press(<<9, 2>>), Press(<<2, 0>>)>>
    /\ ActiveLayers(layout.states) = <<2, 3>> /\ current_layer(layout) = 3

(* ------------------------------------------------------------------ *)
(* Everything released (main.rs:200-228)                              *)
(* ------------------------------------------------------------------ *)

\* the layer keys (2,0) and (4,4) with Y (1,2), which is a!(E) on layer 1, PgUp on
\* layer 2 and nothing on layer 3; the hold-tap key (9,1) with Y; and, on default
\* layer 4, Tab (1,0) and LGui (4,4)
InitDrain ==
    \/ InitWith({<<2, 0>>, <<4, 4>>, <<1, 2>>}, {"log"})
    \/ InitWith({<<9, 1>>, <<1, 2>>}, {"track", "near"})
    \/ InitAt(OnQwertz, {}, {<<1, 0>>, <<4, 4>>}, {"log"})

SpecDrain == InitDrain /\ [][Next]_vars

\* every switch is up, for the scan and for the debouncer, and the layout has
\* neither a queued event nor a hold-tap key waiting
Drained ==
    /\ pc = "idle" /\ raw = {} /\ debouncer.cur = {}
    /\ layout.stacked = <<>> /\ ~layout.waiting.active

\* C20: once every pressed switch has been released and the queued events and
\* the pending hold-tap have resolved, no keycode is active, the built report is
\* all zero and the current layer is the default layer
C20_NoStuck ==
    Drained =>
        /\ keycodes(layout) = <<>> /\ layout.states = <<>>
        /\ report = EmptyReport /\ usb_report = EmptyReport
        /\ current_layer(layout) = layout.default_layer

\* Y went down on layer 0, then (2,0) made layer 1 current, then Y was released
\* and then (2,0)
C20_Witness ==
    /\ Drained
    /\ delivered = <<Press(<<1, 2>>), Press(<<2, 0>>), Release(<<1, 2>>), Release(<<2, 0>>)>>

============================================================================
